---- MODULE Spec2Model ----
(***************************************************************************)
(* State-machine model of the overlay node of src/src/node.rs: the tick    *)
(* loop (inbound datagrams, then the action queue), the handshake /        *)
(* acknowledge / session envelope, the NodePacket dispatcher and the       *)
(* action scheduler.  RemoteNode, RemoteSession, PingTracker and the       *)
(* envelope codec live in modules `types` and `session`, which are not     *)
(* part of src/; they are modelled from spec.md sections 3 and 4.3.        *)
(***************************************************************************)
EXTENDS Integers, Sequences, FiniteSets, TLC

VARIABLES
    node,     \* node[n]: the Node struct of the node with NodeID n
    net,      \* datagrams in flight on the substrate
    last,     \* last[n]: the outbound batch and the debug log of n's latest call of tick
    minted,   \* minted[n]: the handshakes n initiated with direct_connect, in order (history)
    rp_seen,  \* rp_seen[n]: remotes whose RequestPings n dispatched in an earlier tick (history)
    proposed, \* proposed[n]: InternetIDs n sent a ProposeRouteCoords to in an earlier tick (history)
    scen,     \* the actions given to each node with with_action before the first tick (history)
    budget,   \* calls of Node::action the host may still make
    plan,     \* the inbound batches, and the draws of rand::random(), scripted for the coming ticks
    incoming  \* the inbound batch of the latest scripted or forged call of tick (history)

vars == <<node, net, last, minted, rp_seen, proposed, scen, budget, plan, incoming>>

----------------------------------------------------------------------------
(* Bounds of the model *)

MaxTicks == 3      \* each node is ticked at most this often
MaxBatch == 2      \* datagrams handed to one tick by the honest substrate
MaxHost == 2       \* calls of Node::action by the host
MaxSid == 2        \* rand::random() draws a SessionID from 1..MaxSid
MaxAnyTicks == 6   \* ticks of the node under test when the inbound batch is arbitrary
MaxAnyBatch == 1   \* datagrams in an arbitrary inbound batch
MaxSyncTicks == 8  \* rounds of the simulator's lockstep
MaxRemotes == 6    \* remotes the node under test connects to in the scripted runs
MaxFree == 1       \* forged datagrams after a scripted run
MaxAsk == 1        \* ticks on packets of the connected remotes after a crowd run
MaxAskBatch == 2   \* packets of the connected remotes in one such tick
MaxAskN == 3       \* the largest small count a RequestPings of such a tick asks for

(* Program constants *)

TARGET_PEER_COUNT == 5
MAX_REQUEST_PINGS == 10
RATE_LIMIT == 300

----------------------------------------------------------------------------
(* Identifiers *)

Nodes == {1, 2}            \* the nodes that run (spec.md section 8: nid=1, nid=2)
NodeIDs == {1, 2, 3}       \* every NodeID a datagram of the substrate or a forged datagram may name
KnownIDs == 1..(MaxRemotes + 2)   \* every NodeID a node may come to hold a RemoteNode for
Target == CHOOSE n \in Nodes : \A m \in Nodes : m <= n   \* the node under test when the inbound batch is arbitrary
SessionIDs == 1..MaxSid
NetOf(n) == 100 * n        \* InternetID of node n (nid=1, net=100; nid=2, net=200)

None == <<>>
Some(x) == <<x>>
Get(o) == o[1]

Range(s) == {s[i] : i \in DOMAIN s}

----------------------------------------------------------------------------
(* NodePacket, NodeEncryption, InternetPacket values *)

Ping(id) == [kind |-> "Ping", id |-> id]
PingResponse(id) == [kind |-> "PingResponse", id |-> id]
ConnectionInit(id, pkts) == [kind |-> "ConnectionInit", id |-> id, packets |-> pkts]
ExchangeInfo(c, n, d) == [kind |-> "ExchangeInfo", coord |-> c, peer_count |-> n, ping |-> d]
ExchangeInfoResponse(c, n, d) == [kind |-> "ExchangeInfoResponse", coord |-> c, peer_count |-> n, ping |-> d]
ProposeRouteCoords(a, b) == [kind |-> "ProposeRouteCoords", first |-> a, second |-> b]
ProposeRouteCoordsResponse(a, b, acc) ==
    [kind |-> "ProposeRouteCoordsResponse", first |-> a, second |-> b, accepted |-> acc]
RequestPings(n) == [kind |-> "RequestPings", requests |-> n]
WantPing(nid, netid) == [kind |-> "WantPing", nid |-> nid, net |-> netid]
AcceptWantPing(nid, d) == [kind |-> "AcceptWantPing", nid |-> nid, dist |-> d]
PeerNotify(r) == [kind |-> "PeerNotify", rank |-> r]

Handshake(recipient, sid, signer) ==
    [type |-> "Handshake", recipient |-> recipient, session_id |-> sid, signer |-> signer]
Acknowledge(sid, acker, pid) ==
    [type |-> "Acknowledge", session_id |-> sid, acknowledger |-> acker, return_ping_id |-> pid]
Session(sid, p) == [type |-> "Session", session_id |-> sid, packet |-> p]

\* NodeEncryption::package(dest_addr); the substrate stamps the sender's address
Package(enc, src, dest) == [src |-> src, dest |-> dest, enc |-> enc]

----------------------------------------------------------------------------
(* NodeAction and NodeActionCondition values *)

Bootstrap(nid, netid) == [type |-> "Bootstrap", nid |-> nid, net |-> netid]
Connect(nid, netid, pkts) == [type |-> "Connect", nid |-> nid, net |-> netid, packets |-> pkts]
RequestPeers(nid, n) == [type |-> "RequestPeers", nid |-> nid, n |-> n]
TryCalcRouteCoord == [type |-> "TryCalcRouteCoord"]
CalculatePeers == [type |-> "CalculatePeers"]
Traverse(nid, p) == [type |-> "Traverse", nid |-> nid, packet |-> p]
ConnectRouted(nid, pkts) == [type |-> "ConnectRouted", nid |-> nid, packets |-> pkts]
Packet(nid, p) == [type |-> "Packet", nid |-> nid, packet |-> p]
Condition(c, a) == [type |-> "Condition", cond |-> c, action |-> a]
CondSession(nid) == [ctype |-> "Session", nid |-> nid]
CondRunAt(t) == [ctype |-> "RunAt", time |-> t]

----------------------------------------------------------------------------
(* PingTracker (spec.md section 4.3, Ping tracker) *)

NewTracker == [next_ping_id |-> 0, pending |-> {}, dist_avg |-> 0, ping_count |-> 0]

\* gen_ping(now): id = next_ping_id++, pending[id] = now
GenPing(tr, now) ==
    [id |-> tr.next_ping_id,
     tr |-> [tr EXCEPT !.next_ping_id = @ + 1,
                       !.pending = {p \in @ : p[1] # tr.next_ping_id} \cup {<<tr.next_ping_id, now>>}]]

\* acknowledge_ping(id, now): remove pending[id], average the sample in, count it
AcknowledgePing(tr, id, now) ==
    IF \E p \in tr.pending : p[1] = id
    THEN LET send == (CHOOSE p \in tr.pending : p[1] = id)[2]
             sample == now - send
         IN [ok |-> TRUE, sample |-> sample,
             tr |-> [tr EXCEPT !.pending = {p \in @ : p[1] # id},
                               !.dist_avg = (tr.dist_avg * tr.ping_count + sample) \div (tr.ping_count + 1),
                               !.ping_count = @ + 1]]
    ELSE [ok |-> FALSE, sample |-> 0, tr |-> tr]

----------------------------------------------------------------------------
(* RemoteSession and RemoteNode (spec.md section 3) *)

\* RemoteSession::from_id(session_id, return_net_id)
SessionFromId(sid, netid) ==
    [session_id |-> sid, return_net_id |-> netid, tracker |-> NewTracker,
     last_packet_time |-> {}, peer_rank |-> None]

\* check_packet_time: the ticks since the previous packet of this kind, and the arrival recorded
CheckPacketTime(s, p, now) ==
    [delta |-> IF \E e \in s.last_packet_time : e[1] = p.kind
               THEN Some(now - (CHOOSE e \in s.last_packet_time : e[1] = p.kind)[2])
               ELSE None,
     s |-> [s EXCEPT !.last_packet_time = {e \in @ : e[1] # p.kind} \cup {<<p.kind, now>>}]]

\* RemoteNode::new(node_id)
NewRemote(nid) ==
    [node_id |-> nid, handshake_pending |-> None, session |-> None, route_coord |-> None]

\* RemoteNode::session_active
SessionActive(r) == r.session # None

\* remotes.entry(nid).or_insert(RemoteNode::new(nid))
EntryOrInsert(st, nid) == IF st.remotes[nid] = None THEN NewRemote(nid) ELSE Get(st.remotes[nid])

----------------------------------------------------------------------------
(* Collections of the Node struct *)

BiInsertKeepRight(m, l, r) == {p \in m : p[1] # l} \cup {<<l, r>>}

\* BiHashMap::insert: the pairs holding the left or the right value are overwritten
BiInsert(m, l, r) == {p \in m : p[1] # l /\ p[2] # r} \cup {<<l, r>>}

\* BTreeMap::insert: the entry under the same key is overwritten
MapInsert(m, k, v) == {p \in m : p[1] # k} \cup {<<k, v>>}

\* DiGraphMap::add_edge(a, b, w): the weight of an existing edge is replaced
AddEdge(g, a, b, w) == {e \in g : ~(e[1] = a /\ e[2] = b)} \cup {<<a, b, w>>}

\* Node::new(node_id, net_id)
NewNode(nid) ==
    [node_id |-> nid, net_id |-> NetOf(nid), deux_ex_data |-> None, route_coord |-> None,
     ticks |-> 0, remotes |-> [x \in KnownIDs |-> None], sessions |-> {}, node_list |-> {},
     peer_list |-> {}, route_map |-> {}, actions_queue |-> <<>>, panicked |-> FALSE]

\* The number of RemoteNode records: remotes.len()
RemotesLen(st) == Cardinality({x \in DOMAIN st.remotes : st.remotes[x] # None})

\* RemoteNode::add_packet: the packet in the session envelope, to the session's return address
AddPacket(st, r, p) ==
    IF r.session = None THEN [ok |-> FALSE, out |-> <<>>]
    ELSE [ok |-> TRUE,
          out |-> <<Package(Session(Get(r.session).session_id, p), st.net_id,
                            Get(r.session).return_net_id)>>]

----------------------------------------------------------------------------
(* Node::update_connection_packets: an ExchangeInfo among the initial      *)
(* packets is rewritten to carry route_coord, remotes.len() and dist_avg   *)

UpdateConnectionPackets(st, nid, pkts) ==
    LET distance == Get(Get(st.remotes[nid]).session).tracker.dist_avg
    IN [i \in DOMAIN pkts |->
          IF pkts[i].kind = "ExchangeInfo"
          THEN ExchangeInfo(st.route_coord, RemotesLen(st), distance)
          ELSE pkts[i]]

----------------------------------------------------------------------------
(* Node::parse_packet.  The result: the node, the outbound batch, the      *)
(* (NodeID, NodePacket) to dispatch if any, and whether it returned Err    *)

Res(st, out, ret, err) == [st |-> st, out |-> out, ret |-> ret, err |-> err]

\* The tie-break of a Handshake that meets a pending handshake (line 473)
ClearsPendingFlipped(self_id, remote_id) == self_id > remote_id

ClearsPending(self_id, remote_id) == self_id < remote_id

HandshakeKeepSessions(m, sid, signer) == m

\* Line 479: self.sessions.insert(session_id, signer)
HandshakeSessions(m, sid, signer) == BiInsert(m, sid, signer)

ParseHandshake(st, out, pkt) ==
    LET enc == pkt.enc
        signer == enc.signer
        r0 == EntryOrInsert(st, signer)
        r1 == IF r0.handshake_pending # None /\ ClearsPending(st.node_id, r0.node_id)
              THEN [r0 EXCEPT !.handshake_pending = None]
              ELSE r0
        g == GenPing(SessionFromId(enc.session_id, pkt.src).tracker, st.ticks)
        session == [SessionFromId(enc.session_id, pkt.src) EXCEPT !.tracker = g.tr]
        r2 == [r1 EXCEPT !.session = Some(session)]
        ack == Package(Acknowledge(enc.session_id, enc.recipient, g.id), st.net_id, pkt.src)
    IN IF enc.recipient # st.node_id
       THEN Res(st, out, None, TRUE)
       ELSE Res([st EXCEPT !.remotes[signer] = Some(r2),
                           !.sessions = HandshakeSessions(@, enc.session_id, signer)],
                Append(out, ack), None, FALSE)

ParseAcknowledge(st, out, pkt) ==
    LET enc == pkt.enc
        acker == enc.acknowledger
        remote == Get(st.remotes[acker])
        pending == Get(remote.handshake_pending)
        \* handshake_pending.take()
        taken == [st EXCEPT !.remotes[acker] = Some([remote EXCEPT !.handshake_pending = None])]
        g == GenPing(SessionFromId(enc.session_id, pkt.src).tracker, pending.time_sent)
        a == AcknowledgePing(g.tr, g.id, st.ticks)
        session == [SessionFromId(enc.session_id, pkt.src) EXCEPT !.tracker = a.tr]
        st1 == [taken EXCEPT !.remotes[acker] = Some([Get(@) EXCEPT !.session = Some(session)])]
        pkts == UpdateConnectionPackets(st1, acker, pending.packets)
        sent == AddPacket(st1, Get(st1.remotes[acker]), ConnectionInit(enc.return_ping_id, pkts))
        st2 == [st1 EXCEPT !.sessions = BiInsert(@, enc.session_id, acker),
                           !.node_list = MapInsert(@, a.sample, acker),
                           !.route_map = AddEdge(@, st.node_id, acker, a.sample)]
    IN IF st.remotes[acker] = None THEN Res(st, out, None, TRUE)
       ELSE IF remote.handshake_pending = None THEN Res(st, out, None, TRUE)
       ELSE IF pending.session_id # enc.session_id THEN Res(taken, out, None, TRUE)
       ELSE IF ~a.ok THEN Res(taken, out, None, TRUE)
       ELSE Res(st2, out \o sent.out, None, FALSE)

ParseSession(st, out, pkt) ==
    LET enc == pkt.enc
    IN IF \E p \in st.sessions : p[1] = enc.session_id
       THEN Res(st, out, Some(<<(CHOOSE p \in st.sessions : p[1] = enc.session_id)[2], enc.packet>>), FALSE)
       ELSE Res(st, out, None, TRUE)

ParsePacket(st, out, pkt) ==
    IF pkt.dest # st.net_id THEN Res(st, out, None, TRUE)
    ELSE CASE pkt.enc.type = "Handshake" -> ParseHandshake(st, out, pkt)
           [] pkt.enc.type = "Acknowledge" -> ParseAcknowledge(st, out, pkt)
           [] pkt.enc.type = "Session" -> ParseSession(st, out, pkt)

----------------------------------------------------------------------------
(* Node::parse_node_packet.  A context c holds the node, the outbound      *)
(* batch and the debug log; the result adds whether Err was returned       *)

Ctx(st, out, log) == [st |-> st, out |-> out, log |-> log]
NRes(c, err) == [st |-> c.st, out |-> c.out, log |-> c.log, err |-> err]

RemoteOf(st, nid) == Get(st.remotes[nid])
SessionOf(st, nid) == Get(RemoteOf(st, nid).session)
HasSession(st, nid) == st.remotes[nid] # None /\ RemoteOf(st, nid).session # None
SetRemote(st, nid, r) == [st EXCEPT !.remotes[nid] = Some(r)]
SetSession(st, nid, s) == SetRemote(st, nid, [RemoteOf(st, nid) EXCEPT !.session = Some(s)])
SetTracker(st, nid, tr) == SetSession(st, nid, [SessionOf(st, nid) EXCEPT !.tracker = tr])

\* Node::action: push on the action queue
PushAction(st, a) == [st EXCEPT !.actions_queue = Append(@, a)]

\* remote.add_packet(p, outgoing)? on the remote nid of context c
Send(c, nid, p) ==
    LET sent == AddPacket(c.st, RemoteOf(c.st, nid), p)
    IN NRes(Ctx(c.st, c.out \o sent.out, c.log), ~sent.ok)

\* The position of an entry of node_list in ascending key order, from 0
Rank(nl, e) == Cardinality({f \in nl : f[1] < e[1]})

\* Lines 395-401: WantPing to the remotes of node_list.iter().take(num), the requester excepted
RECURSIVE WantPingLoop(_, _, _, _, _)
WantPingLoop(c, from, want, i, num) ==
    IF i >= num \/ i >= Cardinality(c.st.node_list) THEN NRes(c, FALSE)
    ELSE LET nid == (CHOOSE e \in c.st.node_list : Rank(c.st.node_list, e) = i)[2]
         IN IF c.st.remotes[nid] = None THEN NRes(c, TRUE)
            ELSE IF RemoteOf(c.st, nid).node_id = from THEN WantPingLoop(c, from, want, i + 1, num)
            ELSE LET r == Send(c, nid, want)
                 IN IF r.err THEN r ELSE WantPingLoop(Ctx(r.st, r.out, r.log), from, want, i + 1, num)

Min(a, b) == IF a < b THEN a ELSE b

\* Lines 390 and 422: a packet of this kind arrived fewer than 300 ticks ago
RateLimited(delta) == delta # None /\ Get(delta) < RATE_LIMIT

OnPing(c, from, p) == Send(c, from, PingResponse(p.id))

OnPingResponseReverseEdge(c, from, p) ==
    LET a == AcknowledgePing(SessionOf(c.st, from).tracker, p.id, c.st.ticks)
        st1 == SetTracker(c.st, from, a.tr)
    IN IF ~a.ok THEN NRes(c, TRUE)
       ELSE NRes(Ctx([st1 EXCEPT !.route_map = AddEdge(@, from, c.st.node_id, a.sample)], c.out, c.log), FALSE)

OnPingResponse(c, from, p) ==
    LET a == AcknowledgePing(SessionOf(c.st, from).tracker, p.id, c.st.ticks)
        st1 == SetTracker(c.st, from, a.tr)
    IN IF ~a.ok THEN NRes(c, TRUE)
       ELSE NRes(Ctx([st1 EXCEPT !.route_map = AddEdge(@, c.st.node_id, from, a.sample)], c.out, c.log), FALSE)

OnExchangeInfo(c, from, p) ==
    LET st1 == [c.st EXCEPT !.route_map = AddEdge(@, from, c.st.node_id, p.ping)]
        ping == SessionOf(st1, from).tracker.dist_avg
        st2 == SetRemote(st1, from, [RemoteOf(st1, from) EXCEPT !.route_coord = p.coord])
    IN Send(Ctx(st2, c.out, c.log), from, ExchangeInfoResponse(c.st.route_coord, RemotesLen(c.st), ping))

OnExchangeInfoResponse(c, from, p) ==
    LET self_node_count == Cardinality(c.st.node_list)
        st1 == [c.st EXCEPT !.route_map = AddEdge(@, from, c.st.node_id, p.ping)]
        st2 == SetRemote(st1, from, [RemoteOf(st1, from) EXCEPT !.route_coord = p.coord])
        ping == SessionOf(st2, from).tracker.dist_avg
        c2 == Ctx(st2, c.out, c.log)
    IN IF p.peer_count <= 1 /\ p.coord = None
       THEN Send(c2, from, ProposeRouteCoords(<<0, 0>>, <<0, ping>>))
       ELSE IF self_node_count = p.peer_count /\ self_node_count < TARGET_PEER_COUNT
       THEN NRes(Ctx(PushAction(st2, TryCalcRouteCoord), c.out, c.log), FALSE)
       ELSE IF self_node_count < TARGET_PEER_COUNT
       THEN Send(c2, from, RequestPings(TARGET_PEER_COUNT))
       ELSE NRes(Ctx(PushAction(st2, TryCalcRouteCoord), c.out, c.log), FALSE)

OnProposeAlwaysAccepts(c, from, p) ==
    LET st1 == [c.st EXCEPT !.route_coord = Some(p.first)]
        st2 == SetRemote(st1, from, [RemoteOf(st1, from) EXCEPT !.route_coord = Some(p.second)])
    IN Send(Ctx(st2, c.out, c.log), from, ProposeRouteCoordsResponse(p.first, p.second, TRUE))

OnProposeMirrored(c, from, p) ==
    LET st1 == [c.st EXCEPT !.route_coord = Some(p.second)]
        st2 == SetRemote(st1, from, [RemoteOf(st1, from) EXCEPT !.route_coord = Some(p.first)])
    IN IF c.st.route_coord = None
       THEN Send(Ctx(st2, c.out, c.log), from, ProposeRouteCoordsResponse(p.first, p.second, TRUE))
       ELSE Send(c, from, ProposeRouteCoordsResponse(p.first, p.second, FALSE))

OnProposeRouteCoords(c, from, p) ==
    LET st1 == [c.st EXCEPT !.route_coord = Some(p.first)]
        st2 == SetRemote(st1, from, [RemoteOf(st1, from) EXCEPT !.route_coord = Some(p.second)])
    IN IF c.st.route_coord = None
       THEN Send(Ctx(st2, c.out, c.log), from, ProposeRouteCoordsResponse(p.first, p.second, TRUE))
       ELSE Send(c, from, ProposeRouteCoordsResponse(p.first, p.second, FALSE))

OnProposeResponseSwapped(c, from, p) ==
    LET st1 == [c.st EXCEPT !.route_coord = Some(p.first)]
        st2 == SetRemote(st1, from, [RemoteOf(st1, from) EXCEPT !.route_coord = Some(p.second)])
    IN IF p.accepted THEN NRes(Ctx(st2, c.out, c.log), FALSE) ELSE NRes(c, FALSE)

\* Lines 383-388: (initial_remote_proposal, initial_self_proposal, accepted)
OnProposeRouteCoordsResponse(c, from, p) ==
    LET st1 == [c.st EXCEPT !.route_coord = Some(p.second)]
        st2 == SetRemote(st1, from, [RemoteOf(st1, from) EXCEPT !.route_coord = Some(p.first)])
    IN IF p.accepted THEN NRes(Ctx(st2, c.out, c.log), FALSE) ELSE NRes(c, FALSE)

OnRequestPings(c, from, p, delta) ==
    IF RateLimited(delta) THEN NRes(c, FALSE)
    ELSE WantPingLoop(c, from, WantPing(from, SessionOf(c.st, from).return_net_id), 0,
                      Min(p.requests, MAX_REQUEST_PINGS))

OnWantPing(c, from, p) ==
    LET dist == SessionOf(c.st, from).tracker.dist_avg
        req == EntryOrInsert(c.st, p.nid)
        st1 == SetRemote(c.st, p.nid, req)
    IN IF c.st.node_id = p.nid \/ c.st.route_coord = None THEN NRes(c, FALSE)
       ELSE IF req.session # None THEN NRes(Ctx(st1, c.out, c.log), FALSE)
       ELSE IF req.handshake_pending = None
       THEN NRes(Ctx(PushAction(st1, Connect(p.nid, p.net, <<AcceptWantPing(from, dist)>>)), c.out, c.log), FALSE)
       ELSE NRes(Ctx(st1, c.out, c.log), FALSE)

OnAcceptWantPing(c, from, p, delta) ==
    LET st1 == [c.st EXCEPT !.route_map = AddEdge(@, from, p.nid, p.dist)]
        c1 == Ctx(st1, c.out, c.log)
    IN IF RateLimited(delta) THEN NRes(c1, FALSE)
       ELSE Send(c1, from, ExchangeInfo(st1.route_coord, Cardinality(st1.node_list),
                                        SessionOf(st1, from).tracker.dist_avg))

\* session.record_peer_notify(rank)
OnPeerNotify(c, from, p) ==
    NRes(Ctx(SetSession(c.st, from, [SessionOf(c.st, from) EXCEPT !.peer_rank = Some(p.rank)]), c.out, c.log), FALSE)

RECURSIVE ParseNodePacket(_, _, _)
RECURSIVE ParseNodePackets(_, _, _, _)

\* Lines 318-327
OnConnectionInit(c, from, p) ==
    LET a == AcknowledgePing(SessionOf(c.st, from).tracker, p.id, c.st.ticks)
        st1 == SetTracker(c.st, from, a.tr)
        st2 == [st1 EXCEPT !.route_map = AddEdge(@, c.st.node_id, from, a.sample),
                           !.node_list = MapInsert(@, a.sample, from)]
    IN IF ~a.ok THEN NRes(c, TRUE)
       ELSE ParseNodePackets(Ctx(st2, c.out, c.log), from, p.packets, 1)

\* Lines 324-326: for packet in packets { self.parse_node_packet(..)?; }
ParseNodePackets(c, from, pkts, i) ==
    IF i > Len(pkts) THEN NRes(c, FALSE)
    ELSE LET r == ParseNodePacket(c, from, pkts[i])
         IN IF r.err THEN r ELSE ParseNodePackets(Ctx(r.st, r.out, r.log), from, pkts, i + 1)

ParseNodePacket(c0, from, p) ==
    LET logged == Ctx(c0.st, c0.out, Append(c0.log, [from |-> from, kind |-> p.kind]))
        t == CheckPacketTime(SessionOf(c0.st, from), p, c0.st.ticks)
        c == Ctx(SetSession(c0.st, from, t.s), c0.out, logged.log)
    IN IF ~HasSession(c0.st, from) THEN NRes(logged, TRUE)
       ELSE CASE p.kind = "ConnectionInit" -> OnConnectionInit(c, from, p)
              [] p.kind = "Ping" -> OnPing(c, from, p)
              [] p.kind = "PingResponse" -> OnPingResponse(c, from, p)
              [] p.kind = "ExchangeInfo" -> OnExchangeInfo(c, from, p)
              [] p.kind = "ExchangeInfoResponse" -> OnExchangeInfoResponse(c, from, p)
              [] p.kind = "ProposeRouteCoords" -> OnProposeRouteCoords(c, from, p)
              [] p.kind = "ProposeRouteCoordsResponse" -> OnProposeRouteCoordsResponse(c, from, p)
              [] p.kind = "RequestPings" -> OnRequestPings(c, from, p, t.delta)
              [] p.kind = "WantPing" -> OnWantPing(c, from, p)
              [] p.kind = "AcceptWantPing" -> OnAcceptWantPing(c, from, p, t.delta)
              [] p.kind = "PeerNotify" -> OnPeerNotify(c, from, p)
              [] OTHER -> NRes(c, FALSE)

----------------------------------------------------------------------------
(* Node::parse_action.  The result: the node, the outbound batch, the      *)
(* action handed back for the queue if any, and whether Err was returned   *)

ARes(st, out, ret, err) == [st |-> st, out |-> out, ret |-> ret, err |-> err]

\* Node::direct_connect with the SessionID sid drawn by rand::random()
DirectConnect(st, out, nid, netid, pkts, sid) ==
    LET remote == EntryOrInsert(st, nid)
        pending == [session_id |-> sid, time_sent |-> st.ticks, packets |-> pkts]
    IN ARes(SetRemote(st, nid, [remote EXCEPT !.handshake_pending = Some(pending)]),
            Append(out, Package(Handshake(nid, sid, st.node_id), st.net_id, netid)), None, FALSE)

\* Node::routed_connect: the pending handshake carries usize::MAX as its time, nothing is sent
RoutedConnect(st, out, nid, pkts, sid) ==
    LET remote == EntryOrInsert(st, nid)
        pending == [session_id |-> sid, time_sent |-> -1, packets |-> pkts]
    IN ARes(SetRemote(st, nid, [remote EXCEPT !.handshake_pending = Some(pending)]), out, None, FALSE)

\* RemoteNode::is_viable_peer(self_route_coord): the remote's coordinate if it is a viable peer
IsViablePeer(r, self_coord) == r.route_coord

RECURSIVE CollectPeersUncapped(_, _, _, _)
CollectPeersUncapped(st, i, taken, acc) ==
    IF i >= Cardinality(st.node_list) THEN acc
    ELSE LET nid == (CHOOSE e \in st.node_list : Rank(st.node_list, e) = i)[2]
             v == IsViablePeer(RemoteOf(st, nid), Get(st.route_coord))
         IN IF v = None THEN CollectPeersUncapped(st, i + 1, taken, acc)
            ELSE CollectPeersUncapped(st, i + 1, taken + 1, BiInsert(acc, nid, Get(v)))

\* Lines 293-296: filter_map over node_list in key order, take(TARGET_PEER_COUNT), collect
RECURSIVE CollectPeers(_, _, _, _)
CollectPeers(st, i, taken, acc) ==
    IF i >= Cardinality(st.node_list) \/ taken >= TARGET_PEER_COUNT THEN acc
    ELSE LET nid == (CHOOSE e \in st.node_list : Rank(st.node_list, e) = i)[2]
             v == IsViablePeer(RemoteOf(st, nid), Get(st.route_coord))
         IN IF v = None THEN CollectPeers(st, i + 1, taken, acc)
            ELSE CollectPeers(st, i + 1, taken + 1, BiInsert(acc, nid, Get(v)))

\* NodeActionCondition::check
ConditionCheck(st, cond) ==
    IF cond.ctype = "Session"
    THEN IF st.remotes[cond.nid] = None THEN [err |-> TRUE, holds |-> FALSE]
         ELSE [err |-> FALSE, holds |-> SessionActive(RemoteOf(st, cond.nid))]
    ELSE [err |-> FALSE, holds |-> st.ticks >= cond.time]

\* Node::calculate_route_coord: the deus ex machina coordinate, or Err
CalculateRouteCoord(st) == st.deux_ex_data

ActBootstrap(st, out, a) ==
    ARes(PushAction(st, Connect(a.nid, a.net, <<ExchangeInfo(st.route_coord, 0, 0)>>)), out, None, FALSE)

ActSend(st, out, nid, p) ==
    IF st.remotes[nid] = None THEN ARes(st, out, None, TRUE)
    ELSE LET sent == AddPacket(st, RemoteOf(st, nid), p)
         IN ARes(st, out \o sent.out, None, ~sent.ok)

ActTryCalcRouteCoord(st, out) ==
    IF CalculateRouteCoord(st) = None THEN ARes(st, out, None, TRUE)
    ELSE ARes(PushAction([st EXCEPT !.route_coord = CalculateRouteCoord(st)], CalculatePeers),
              out, None, FALSE)

ActCalculatePeers(st, out) ==
    IF st.route_coord = None THEN ARes(st, out, None, TRUE)
    ELSE ARes([st EXCEPT !.peer_list = CollectPeers(st, 0, 0, {})], out, None, FALSE)

ActCondition(st, out, a) ==
    LET chk == ConditionCheck(st, a.cond)
    IN IF chk.err THEN ARes(st, out, None, TRUE)
       ELSE ARes(st, out, Some(IF chk.holds THEN a.action ELSE a), FALSE)

ParseAction(st, out, a, sid) ==
    CASE a.type = "Bootstrap" -> ActBootstrap(st, out, a)
      [] a.type = "Connect" -> DirectConnect(st, out, a.nid, a.net, a.packets, sid)
      [] a.type = "RequestPeers" -> ActSend(st, out, a.nid, RequestPings(a.n))
      [] a.type = "TryCalcRouteCoord" -> ActTryCalcRouteCoord(st, out)
      [] a.type = "CalculatePeers" -> ActCalculatePeers(st, out)
      [] a.type = "ConnectRouted" -> RoutedConnect(st, out, a.nid, a.packets, sid)
      [] a.type = "Packet" -> ActSend(st, out, a.nid, a.packet)
      [] a.type = "Condition" -> ActCondition(st, out, a)
      [] OTHER -> ARes([st EXCEPT !.panicked = TRUE], out, None, TRUE)

----------------------------------------------------------------------------
(* Node::tick *)

\* Lines 121-133: every inbound datagram through parse_packet, then parse_node_packet
RECURSIVE ParseIncoming(_, _, _)
ParseIncoming(c, batch, i) ==
    IF i > Len(batch) THEN c
    ELSE LET r == ParsePacket(c.st, c.out, batch[i])
             d == ParseNodePacket(Ctx(r.st, r.out, c.log), Get(r.ret)[1], Get(r.ret)[2])
         IN IF r.err \/ r.ret = None THEN ParseIncoming(Ctx(r.st, r.out, c.log), batch, i + 1)
            ELSE ParseIncoming(Ctx(d.st, d.out, d.log), batch, i + 1)

\* direct_connect and routed_connect draw a SessionID with rand::random()
NeedsSid(a) == a.type \in {"Connect", "ConnectRouted"}

\* The number of draws of rand::random() the queue aq makes
Draws(aq) == Cardinality({i \in DOMAIN aq : NeedsSid(aq[i])})

RECURSIVE RunActionsUntilError(_, _, _, _, _)
RunActionsUntilError(c, aq, rnd, i, kept) ==
    IF i > Len(aq) \/ c.st.panicked THEN [st |-> c.st, out |-> c.out, log |-> c.log, kept |-> kept]
    ELSE LET r == ParseAction(c.st, c.out, aq[i], IF NeedsSid(aq[i]) THEN Head(rnd) ELSE 0)
         IN IF r.err THEN [st |-> r.st, out |-> r.out, log |-> c.log, kept |-> kept]
            ELSE RunActionsUntilError(Ctx(r.st, r.out, c.log), aq,
                                      IF NeedsSid(aq[i]) THEN Tail(rnd) ELSE rnd, i + 1,
                                      IF r.ret = None THEN kept ELSE Append(kept, Get(r.ret)))

\* Lines 137-143: the clone of the queue through parse_action; kept is what filter_map yields
RECURSIVE RunActions(_, _, _, _, _)
RunActions(c, aq, rnd, i, kept) ==
    IF i > Len(aq) \/ c.st.panicked THEN [st |-> c.st, out |-> c.out, log |-> c.log, kept |-> kept]
    ELSE LET r == ParseAction(c.st, c.out, aq[i], IF NeedsSid(aq[i]) THEN Head(rnd) ELSE 0)
         IN RunActions(Ctx(r.st, r.out, c.log), aq, IF NeedsSid(aq[i]) THEN Tail(rnd) ELSE rnd, i + 1,
                       IF r.err \/ r.ret = None THEN kept ELSE Append(kept, Get(r.ret)))

QueueAfterAppending(during, kept) == kept \o during

\* Line 144: self.actions_queue = iter.collect(), whatever was pushed while the iterator ran
QueueAfter(during, kept) == kept

\* The first half of tick: the inbound batch
TickIncoming(st, batch) == ParseIncoming(Ctx(st, <<>>, <<>>), batch, 1)

\* The second half of tick, from the context c1 the inbound batch left: the queue, then ticks += 1
TickActions(c1, rnd) ==
    LET aq == c1.st.actions_queue
        c2 == RunActions(c1, aq, rnd, 1, <<>>)
        pushed == SubSeq(c2.st.actions_queue, Len(aq) + 1, Len(c2.st.actions_queue))
    IN IF c2.st.panicked THEN [st |-> c2.st, out |-> c2.out, log |-> c2.log]
       ELSE [st |-> [c2.st EXCEPT !.actions_queue = QueueAfter(pushed, c2.kept), !.ticks = @ + 1],
             out |-> c2.out, log |-> c2.log]

----------------------------------------------------------------------------
(* The host and the substrate *)

Other(n) == CHOOSE m \in Nodes : m # n

\* The actions the host hands to node n
HostMenu(n) ==
    {Connect(Other(n), NetOf(Other(n)), <<>>),
     Connect(Other(n), NetOf(Other(n)), <<ExchangeInfo(None, 0, 0)>>),
     Bootstrap(Other(n), NetOf(Other(n))),
     RequestPeers(Other(n), 1),
     Condition(CondSession(Other(n)), Packet(Other(n), Ping(0)))}

\* Sequences without repetition of at most k elements of S
Batches(S, k) ==
    {b \in UNION {[1..m -> S] : m \in 0..k} : \A i, j \in DOMAIN b : i # j => b[i] # b[j]}

Inbox(n) == {d \in net : d.dest = NetOf(n)}

\* What one call of tick leaves in the history variables: for every Handshake it sent, the
\* SessionID, the recipient, and whether it held no session for the recipient when the
\* action queue ran (c1 is the context the inbound batch left)
RECURSIVE MintedIn(_, _, _)
MintedIn(c1, out, i) ==
    IF i > Len(out) THEN <<>>
    ELSE (IF out[i].enc.type = "Handshake" /\ out[i].enc.signer = c1.st.node_id
          THEN <<[sid |-> out[i].enc.session_id, to |-> out[i].enc.recipient,
                  fresh |-> ~HasSession(c1.st, out[i].enc.recipient)]>>
          ELSE <<>>) \o MintedIn(c1, out, i + 1)

\* The destinations of the ProposeRouteCoords packets of the batch out
ProposedTo(out) ==
    {out[i].dest : i \in {j \in DOMAIN out : out[j].enc.type = "Session"
                                              /\ out[j].enc.packet.kind = "ProposeRouteCoords"}}

RequestPingsFrom(log) == {log[i].from : i \in {j \in DOMAIN log : log[j].kind = "RequestPings"}}

TickRecord(r) == [out |-> r.out, log |-> r.log]

NoTick == [out |-> <<>>, log |-> <<>>]

InitCommon ==
    /\ net = {}
    /\ last = [n \in Nodes |-> NoTick]
    /\ minted = [n \in Nodes |-> <<>>]
    /\ rp_seen = [n \in Nodes |-> {}]
    /\ proposed = [n \in Nodes |-> {}]
    /\ incoming = <<>>

\* Node::new for every node; the host may call action MaxHost times
Init ==
    /\ InitCommon
    /\ node = [n \in Nodes |-> NewNode(n)]
    /\ scen = [n \in Nodes |-> <<>>]
    /\ budget = MaxHost
    /\ plan = <<>>

\* Node::action, line 165
HostAction(n) ==
    /\ budget > 0
    /\ \E a \in HostMenu(n) : node' = [node EXCEPT ![n] = PushAction(@, a)]
    /\ budget' = budget - 1
    /\ UNCHANGED <<net, last, minted, rp_seen, proposed, scen, plan, incoming>>

\* Node::tick on a batch the substrate delivers to n, in any order
Tick(n) ==
    /\ node[n].ticks < MaxTicks
    /\ ~node[n].panicked
    /\ \E batch \in Batches(Inbox(n), MaxBatch) :
         LET c1 == TickIncoming(node[n], batch)
         IN \E rnd \in [1..Draws(c1.st.actions_queue) -> SessionIDs] :
              LET r == TickActions(c1, rnd)
              IN /\ node' = [node EXCEPT ![n] = r.st]
                 /\ net' = (net \ Range(batch)) \cup Range(r.out)
                 /\ last' = [last EXCEPT ![n] = TickRecord(r)]
                 /\ minted' = [minted EXCEPT ![n] = @ \o MintedIn(c1, r.out, 1)]
                 /\ rp_seen' = [rp_seen EXCEPT ![n] = @ \cup RequestPingsFrom(r.log)]
                 /\ proposed' = [proposed EXCEPT ![n] = @ \cup ProposedTo(r.out)]
    /\ UNCHANGED <<scen, budget, plan, incoming>>

\* The next-state relation of the honest substrate: it delivers a datagram to the node it
\* is addressed to, in any order and after any delay; one it never delivers is a dropped one
Next ==
    \/ \E n \in Nodes : HostAction(n)
    \/ \E n \in Nodes : Tick(n)

Spec == Init /\ [][Next]_vars

----------------------------------------------------------------------------
(* The node under test on arbitrary inbound batches *)

Peers == NodeIDs \ {Target}

AnyPackets ==
    {ConnectionInit(0, <<>>), RequestPings(1), Ping(0)}

AnyDatagrams ==
    {Package(Handshake(Target, sid, x), NetOf(x), NetOf(Target)) : sid \in SessionIDs, x \in Peers}
    \cup {Package(Acknowledge(sid, x, 0), NetOf(x), NetOf(Target)) : sid \in SessionIDs, x \in Peers}
    \cup {Package(Session(sid, p), NetOf(Other(Target)), NetOf(Target)) : sid \in SessionIDs, p \in AnyPackets}

TickAny ==
    /\ node[Target].ticks < MaxAnyTicks
    /\ ~node[Target].panicked
    /\ \E batch \in Batches(AnyDatagrams, MaxAnyBatch) :
         LET c1 == TickIncoming(node[Target], batch)
         IN \E rnd \in [1..Draws(c1.st.actions_queue) -> SessionIDs] :
              LET r == TickActions(c1, rnd)
              IN /\ node' = [node EXCEPT ![Target] = r.st]
                 /\ last' = [last EXCEPT ![Target] = TickRecord(r)]
                 /\ minted' = [minted EXCEPT ![Target] = @ \o MintedIn(c1, r.out, 1)]
                 /\ rp_seen' = [rp_seen EXCEPT ![Target] = @ \cup RequestPingsFrom(r.log)]
                 /\ proposed' = [proposed EXCEPT ![Target] = @ \cup ProposedTo(r.out)]
    /\ UNCHANGED <<net, scen, budget, plan, incoming>>

\* The queues the node under test starts with (Node::with_action)
AnyScenMenu ==
    {<<>>} \cup {<<Connect(x, NetOf(x), <<>>)>> : x \in Peers}

InitAny ==
    /\ InitCommon
    /\ scen \in {f \in [Nodes -> AnyScenMenu] : \A n \in Nodes \ {Target} : f[n] = <<>>}
    /\ node = [n \in Nodes |-> [NewNode(n) EXCEPT !.actions_queue = scen[n]]]
    /\ budget = 0
    /\ plan = <<>>

NextAny == TickAny

SpecAny == InitAny /\ [][NextAny]_vars

----------------------------------------------------------------------------
(* The simulator's lockstep: every node ticks in every round, and every    *)
(* datagram sent in a round is delivered in the next one                   *)

\* The queues the nodes start with (Node::with_action)
ScenMenu(n) ==
    {<<>>,
     <<Connect(Other(n), NetOf(Other(n)), <<>>)>>,
     <<Connect(Other(n), NetOf(Other(n)), <<ExchangeInfo(None, 0, 0)>>)>>,
     <<Bootstrap(Other(n), NetOf(Other(n)))>>,
     <<Condition(CondSession(Other(n)), Packet(Other(n), Ping(0)))>>,
     <<Connect(Other(n), NetOf(Other(n)), <<>>), Condition(CondSession(Other(n)), Packet(Other(n), Ping(0)))>>}

InitSync ==
    /\ InitCommon
    /\ scen \in {f \in [Nodes -> UNION {ScenMenu(n) : n \in Nodes}] : \A n \in Nodes : f[n] \in ScenMenu(n)}
    /\ node = [n \in Nodes |-> [NewNode(n) EXCEPT !.actions_queue = scen[n]]]
    /\ budget = 0
    /\ plan = <<>>

\* Every way node n can run one tick on the whole of its inbox
Outcomes(n) ==
    UNION {{[c1 |-> TickIncoming(node[n], b), r |-> TickActions(TickIncoming(node[n], b), rnd)] :
              rnd \in [1..Draws(TickIncoming(node[n], b).st.actions_queue) -> SessionIDs]} :
           b \in {x \in Batches(Inbox(n), Cardinality(Inbox(n))) : Len(x) = Cardinality(Inbox(n))}}

Round ==
    /\ \A n \in Nodes : node[n].ticks < MaxSyncTicks /\ ~node[n].panicked
    /\ \E o \in {f \in [Nodes -> UNION {Outcomes(n) : n \in Nodes}] : \A n \in Nodes : f[n] \in Outcomes(n)} :
         /\ node' = [n \in Nodes |-> o[n].r.st]
         /\ net' = UNION {Range(o[n].r.out) : n \in Nodes}
         /\ last' = [n \in Nodes |-> TickRecord(o[n].r)]
         /\ minted' = [n \in Nodes |-> minted[n] \o MintedIn(o[n].c1, o[n].r.out, 1)]
         /\ rp_seen' = [n \in Nodes |-> rp_seen[n] \cup RequestPingsFrom(o[n].r.log)]
         /\ proposed' = [n \in Nodes |-> proposed[n] \cup ProposedTo(o[n].r.out)]
    /\ UNCHANGED <<scen, budget, plan, incoming>>

NextSync == Round

SpecSync == InitSync /\ [][NextSync]_vars

----------------------------------------------------------------------------
(* The node under test on a scripted run: the queue it is given, the value *)
(* set_deus_ex_data stored, and for every tick the inbound batch and the   *)
(* SessionIDs rand::random() returns                                       *)

Step(in, rnd) == [in |-> in, rnd |-> rnd]
Run(queue, deus, steps) == [queue |-> queue, deus |-> deus, steps |-> steps]

\* The datagram with envelope enc that remote x sends to the node under test
From(x, enc) == Package(enc, NetOf(x), NetOf(Target))

\* Node::tick of the node under test on the next scripted batch
TickPlan ==
    /\ plan # <<>>
    /\ ~node[Target].panicked
    /\ LET c1 == TickIncoming(node[Target], Head(plan).in)
           r == TickActions(c1, Head(plan).rnd)
       IN /\ node' = [node EXCEPT ![Target] = r.st]
          /\ last' = [last EXCEPT ![Target] = TickRecord(r)]
          /\ minted' = [minted EXCEPT ![Target] = @ \o MintedIn(c1, r.out, 1)]
          /\ rp_seen' = [rp_seen EXCEPT ![Target] = @ \cup RequestPingsFrom(r.log)]
          /\ proposed' = [proposed EXCEPT ![Target] = @ \cup ProposedTo(r.out)]
    /\ plan' = Tail(plan)
    /\ incoming' = Head(plan).in
    /\ UNCHANGED <<net, scen, budget>>

\* Node::new, with_action for every action of the queue, set_deus_ex_data
InitRun(run) ==
    /\ InitCommon
    /\ scen = [n \in Nodes |-> IF n = Target THEN run.queue ELSE <<>>]
    /\ node = [n \in Nodes |-> IF n = Target
                                THEN [NewNode(n) EXCEPT !.actions_queue = run.queue,
                                                        !.deux_ex_data = run.deus]
                                ELSE NewNode(n)]
    /\ plan = run.steps

----------------------------------------------------------------------------
(* Scripted runs against one remote, each followed by forged datagrams *)

\* The remote of these runs
Peer == Other(Target)

\* The node under test initiates: Connect with ExchangeInfo, the Acknowledge, the remote's
\* ExchangeInfoResponse, the remote's acceptance of the proposal
RunInitiator ==
    Run(<<Connect(Peer, NetOf(Peer), <<ExchangeInfo(None, 0, 0)>>)>>, None,
        <<Step(<<>>, <<1>>),
          Step(<<From(Peer, Acknowledge(1, Peer, 0))>>, <<>>),
          Step(<<From(Peer, Session(1, ExchangeInfoResponse(None, 1, 0)))>>, <<>>),
          Step(<<From(Peer, Session(1, ProposeRouteCoordsResponse(<<0, 0>>, <<0, 1>>, TRUE)))>>, <<>>)>>)

\* The remote initiates: its Handshake, its ConnectionInit with ExchangeInfo, its proposal
RunResponder ==
    Run(<<>>, None,
        <<Step(<<From(Peer, Handshake(Target, 1, Peer))>>, <<>>),
          Step(<<From(Peer, Session(1, ConnectionInit(0, <<ExchangeInfo(None, 1, 0)>>)))>>, <<>>),
          Step(<<From(Peer, Session(1, ProposeRouteCoords(<<0, 0>>, <<0, 1>>)))>>, <<>>)>>)

\* A queue of actions that fail between actions that succeed
RunFailing ==
    Run(<<RequestPeers(Peer, 1), TryCalcRouteCoord, CalculatePeers, Connect(Peer, NetOf(Peer), <<>>),
          Packet(Peer, Ping(0)), Connect(3, NetOf(3), <<>>)>>, None,
        <<Step(<<>>, <<1, 2>>)>>)

\* The variants of NodeAction the other runs leave out
RunTraverse == Run(<<Traverse(Peer, Ping(0))>>, None, <<Step(<<>>, <<>>)>>)
RunRouted == Run(<<ConnectRouted(Peer, <<>>)>>, None, <<Step(<<>>, <<1>>)>>)

\* The solver succeeds
RunSolved == Run(<<TryCalcRouteCoord>>, Some(<<1, 1>>), <<Step(<<>>, <<>>), Step(<<>>, <<>>)>>)

\* The remote's Handshake arrives at tick 1 and nothing follows it
RunIdle ==
    Run(<<>>, None,
        <<Step(<<>>, <<>>), Step(<<From(Peer, Handshake(Target, 1, Peer))>>, <<>>),
          Step(<<>>, <<>>), Step(<<>>, <<>>)>>)

\* The host bootstraps the node onto the remote
RunBootstrap == Run(<<Bootstrap(Peer, NetOf(Peer))>>, None, <<Step(<<>>, <<>>), Step(<<>>, <<>>)>>)

PktRuns ==
    {RunInitiator, RunResponder, RunFailing, RunTraverse, RunRouted, RunSolved, RunIdle, RunBootstrap}

PktPackets ==
    {Ping(0), PingResponse(0), PingResponse(1), ConnectionInit(0, <<>>),
     ExchangeInfo(None, 1, 0),
     ExchangeInfoResponse(None, 1, 0), ExchangeInfoResponse(None, 2, 0),
     ExchangeInfoResponse(Some(<<1, 1>>), 1, 0),
     ProposeRouteCoords(<<0, 0>>, <<0, 1>>), ProposeRouteCoords(<<2, 2>>, <<3, 3>>),
     ProposeRouteCoordsResponse(<<0, 0>>, <<0, 1>>, TRUE),
     ProposeRouteCoordsResponse(<<0, 0>>, <<0, 1>>, FALSE),
     RequestPings(1), WantPing(3, NetOf(3)), AcceptWantPing(3, 1), PeerNotify(0)}

\* The forged datagrams: one for another address, a Handshake for another NodeID, and
\* Handshake, Acknowledge and Session envelopes in the remote's name
PktDatagrams ==
    {Package(Handshake(Target, 1, Peer), NetOf(Peer), NetOf(3)),
     From(Peer, Handshake(3, 1, Peer)),
     From(3, Acknowledge(1, 3, 0))}
    \cup {From(Peer, Handshake(Target, sid, Peer)) : sid \in SessionIDs}
    \cup {From(Peer, Acknowledge(sid, Peer, 0)) : sid \in SessionIDs}
    \cup {From(Peer, Session(sid, p)) : sid \in SessionIDs, p \in PktPackets}

InitPkt ==
    /\ \E run \in PktRuns : InitRun(run)
    /\ budget = MaxFree

\* Node::tick on a forged batch, at any point of the scripted run, which it ends
TickFree ==
    /\ budget > 0
    /\ ~node[Target].panicked
    /\ \E batch \in Batches(PktDatagrams, 1) :
         LET c1 == TickIncoming(node[Target], batch)
         IN \E rnd \in [1..Draws(c1.st.actions_queue) -> SessionIDs] :
              LET r == TickActions(c1, rnd)
              IN /\ node' = [node EXCEPT ![Target] = r.st]
                 /\ last' = [last EXCEPT ![Target] = TickRecord(r)]
                 /\ minted' = [minted EXCEPT ![Target] = @ \o MintedIn(c1, r.out, 1)]
                 /\ rp_seen' = [rp_seen EXCEPT ![Target] = @ \cup RequestPingsFrom(r.log)]
                 /\ proposed' = [proposed EXCEPT ![Target] = @ \cup ProposedTo(r.out)]
                 /\ incoming' = batch
    /\ plan' = <<>>
    /\ budget' = budget - 1
    /\ UNCHANGED <<net, scen>>

NextPkt == TickPlan \/ TickFree

SpecPkt == InitPkt /\ [][NextPkt]_vars

----------------------------------------------------------------------------
(* Scripted runs against up to MaxRemotes remotes: the node under test     *)
(* connects to all of them, the solver gives it a coordinate, every remote *)
(* acknowledges at a tick of its own and reports a coordinate or none, and *)
(* CalculatePeers runs once all have answered                              *)

\* The i-th remote
RemoteAt(i) == IF i < Target THEN i ELSE i + 1

CrowdQueue(k) ==
    [i \in 1..k |-> Connect(RemoteAt(i), NetOf(RemoteAt(i)), <<>>)]
    \o <<TryCalcRouteCoord, Condition(CondRunAt(k + 1), CalculatePeers)>>

\* Remote i acknowledges at tick i and sends ExchangeInfo, with the coordinate (i, 0) if it is in known
CrowdSteps(k, known) ==
    <<Step(<<>>, [i \in 1..k |-> i])>>
    \o [i \in 1..k |->
          Step(<<From(RemoteAt(i), Acknowledge(i, RemoteAt(i), 0)),
                 From(RemoteAt(i), Session(i, ExchangeInfo(IF i \in known THEN Some(<<i, 0>>) ELSE None, 1, 0)))>>,
               <<>>)]
    \o <<Step(<<>>, <<>>), Step(<<>>, <<>>)>>

CrowdRuns ==
    UNION {{Run(CrowdQueue(k), Some(<<0, 0>>), CrowdSteps(k, known)) : known \in SUBSET (1..k)} :
           k \in 0..MaxRemotes}

InitCrowd ==
    /\ \E run \in CrowdRuns : InitRun(run)
    /\ budget = 0

NextCrowd == TickPlan

SpecCrowd == InitCrowd /\ [][NextCrowd]_vars

----------------------------------------------------------------------------
(* The crowd runs, followed by a tick on packets that the connected        *)
(* remotes send unsolicited on their sessions                              *)

\* A NodeID the node under test never connected to
FreeID == MaxRemotes + 2

\* The remotes the node holds a session for
Connected(st) == {x \in KnownIDs : HasSession(st, x)}

AskPackets ==
    {RequestPings(n) : n \in 0..MaxAskN} \cup {RequestPings(MAX_REQUEST_PINGS + 1)}
    \cup {WantPing(r, NetOf(r)) : r \in {Target, FreeID, RemoteAt(1)}}
    \cup {Ping(0), ExchangeInfo(None, 1, 0), AcceptWantPing(FreeID, 2)}

\* The packets of AskPackets from the connected remotes of st, each on the remote's session
AskDatagrams(st) ==
    {From(x, Session(SessionOf(st, x).session_id, p)) : x \in Connected(st), p \in AskPackets}

\* The SessionIDs rand::random() draws in such a tick
AskSids == {MaxRemotes + 1, MaxRemotes + 2}

\* The first remote sends one packet of every kind a remote can send unsolicited
WarmStep ==
    Step([i \in 1..5 |->
            From(RemoteAt(1),
                 Session(1, <<Ping(0), ExchangeInfo(None, 1, 0), RequestPings(0),
                              WantPing(Target, NetOf(Target)), AcceptWantPing(FreeID, 1)>>[i]))],
         <<>>)

InitAsk ==
    /\ \E k \in 0..MaxRemotes : \E warm \in BOOLEAN :
         InitRun(Run(CrowdQueue(k), Some(<<0, 0>>),
                     CrowdSteps(k, {}) \o (IF warm /\ k >= 1 THEN <<WarmStep>> ELSE <<>>)))
    /\ budget = MaxAsk

\* Node::tick on a batch of up to MaxAskBatch such packets, once the crowd run is over
TickAsk ==
    /\ plan = <<>>
    /\ budget > 0
    /\ ~node[Target].panicked
    /\ \E batch \in UNION {[1..m -> AskDatagrams(node[Target])] : m \in 1..MaxAskBatch} :
         LET c1 == TickIncoming(node[Target], batch)
         IN \E rnd \in [1..Draws(c1.st.actions_queue) -> AskSids] :
              LET r == TickActions(c1, rnd)
              IN /\ node' = [node EXCEPT ![Target] = r.st]
                 /\ last' = [last EXCEPT ![Target] = TickRecord(r)]
                 /\ minted' = [minted EXCEPT ![Target] = @ \o MintedIn(c1, r.out, 1)]
                 /\ rp_seen' = [rp_seen EXCEPT ![Target] = @ \cup RequestPingsFrom(r.log)]
                 /\ proposed' = [proposed EXCEPT ![Target] = @ \cup ProposedTo(r.out)]
                 /\ incoming' = batch
    /\ budget' = budget - 1
    /\ UNCHANGED <<net, scen, plan>>

NextAsk == TickPlan \/ TickAsk

SpecAsk == InitAsk /\ [][NextAsk]_vars

----------------------------------------------------------------------------
(* Vocabulary of the properties *)

SidWith(n, x) == SessionOf(node[n], x).session_id
PendingWith(n, x) == Get(RemoteOf(node[n], x).handshake_pending)
HasPending(n, x) == node[n].remotes[x] # None /\ RemoteOf(node[n], x).handshake_pending # None
SessionsFor(n, x) == {p \in node[n].sessions : p[2] = x}
IsConnecting(a) == a.type \in {"Connect", "Bootstrap", "ConnectRouted"}

\* No Handshake or Acknowledge is in flight and no node is about to send one
HandshakesSettled ==
    /\ \A d \in net : d.enc.type = "Session"
    /\ \A n \in Nodes : \A i \in DOMAIN node[n].actions_queue : ~IsConnecting(node[n].actions_queue[i])

\* Node n initiated at most one handshake, and none while it held a session for the recipient
InitiatedOnce(n) == Len(minted[n]) <= 1 /\ \A i \in DOMAIN minted[n] : minted[n][i].fresh

\* C1: handshake symmetry. Once the handshakes between two nodes have run to the end (each
\* side initiated at most once and held no session yet when it did, every Handshake and
\* Acknowledge was delivered, in whatever order) and both hold a session for the other, the two sessions carry the same session_id
\* and each sessions map holds exactly the one entry for the other node, with that id.
C1_HandshakeSymmetry ==
    \A a \in Nodes : \A b \in Nodes \ {a} :
        (/\ HandshakesSettled
         /\ InitiatedOnce(a) /\ InitiatedOnce(b)
         /\ HasSession(node[a], b) /\ HasSession(node[b], a))
        => /\ SidWith(a, b) = SidWith(b, a)
           /\ SessionsFor(a, b) = {<<SidWith(a, b), b>>}
           /\ SessionsFor(b, a) = {<<SidWith(a, b), a>>}

\* C1 happens: both nodes initiated while neither held a session, every Handshake and
\* Acknowledge was delivered, and both hold a session
C1_Reached ==
    /\ HandshakesSettled
    /\ \A n \in Nodes : Len(minted[n]) = 1 /\ InitiatedOnce(n) /\ HasSession(node[n], Other(n))

----------------------------------------------------------------------------
(* C2: the simultaneous handshake in the simulator's lockstep *)

\* Both nodes start with Connect(other, other_net, []) and so execute it in the same tick
Simultaneous(a, b) ==
    /\ scen[a] = <<Connect(b, NetOf(b), <<>>)>>
    /\ scen[b] = <<Connect(a, NetOf(a), <<>>)>>

\* The one session_id in use between a and b is sid
OneSessionId(a, b, sid) ==
    /\ HasSession(node[a], b) /\ HasSession(node[b], a)
    /\ SidWith(a, b) = sid /\ SidWith(b, a) = sid
    /\ SessionsFor(a, b) = {<<sid, b>>} /\ SessionsFor(b, a) = {<<sid, a>>}

\* C2 as claimed: two ticks after the tick of the Connects, the one session_id in use is
\* the one minted by the node with the smaller NodeID.
C2_SurvivorOfSmaller ==
    \A a \in Nodes : \A b \in Nodes :
        (a < b /\ Simultaneous(a, b) /\ node[a].ticks >= 3 /\ node[b].ticks >= 3)
        => OneSessionId(a, b, minted[a][1].sid)

\* C2 as amended: two ticks after the tick of the Connects, the one session_id in use is
\* the one minted by the node with the larger NodeID.
C2_SurvivorOfLarger ==
    \A a \in Nodes : \A b \in Nodes :
        (a < b /\ Simultaneous(a, b) /\ node[a].ticks >= 3 /\ node[b].ticks >= 3)
        => OneSessionId(a, b, minted[b][1].sid)

\* C2 happens: the simultaneous handshake has run its two further ticks, with two different ids
C2_Reached ==
    \E a \in Nodes : \E b \in Nodes :
        /\ a < b /\ Simultaneous(a, b) /\ node[a].ticks = 3 /\ node[b].ticks = 3
        /\ minted[a][1].sid # minted[b][1].sid

----------------------------------------------------------------------------
(* C3, C4, C5: the invariants of sessions, remotes and handshake_pending *)

\* C3: sessions is a bijection: no SessionID maps to two NodeIDs and no NodeID is the value
\* of two SessionIDs.
C3_SessionsBijection ==
    \A n \in Nodes : \A p \in node[n].sessions : \A q \in node[n].sessions :
        (p[1] = q[1] \/ p[2] = q[2]) => p = q

\* C3 happens: two remotes presented the same session_id, or a remote shook hands again
C3_Reached ==
    \E x \in NodeIDs : \E y \in NodeIDs :
        /\ x # y /\ HasSession(node[Target], x) /\ HasSession(node[Target], y)
        /\ SidWith(Target, x) = SidWith(Target, y)
        /\ Cardinality(node[Target].sessions) = 1

\* C4: for every (sid, nid) in sessions, remotes[nid] exists and has an active session
\* whose session_id is sid.
C4_SessionsMatchRemotes ==
    \A n \in Nodes : \A p \in node[n].sessions :
        HasSession(node[n], p[2]) /\ SidWith(n, p[2]) = p[1]

\* C4 happens: a remote whose handshake was acknowledged shook hands again with another id
C4_Reached ==
    \E x \in NodeIDs :
        /\ Len(minted[Target]) = 1 /\ minted[Target][1].to = x
        /\ HasSession(node[Target], x) /\ ~HasPending(Target, x)
        /\ SidWith(Target, x) # minted[Target][1].sid
        /\ <<minted[Target][1].sid, x>> \notin node[Target].sessions

\* C5: no remote has a pending handshake and a session with different session_ids.
C5_NoConflictingPending ==
    \A n \in Nodes : \A x \in NodeIDs :
        (HasPending(n, x) /\ HasSession(node[n], x)) => PendingWith(n, x).session_id = SidWith(n, x)

----------------------------------------------------------------------------
(* C6, C7: bootstrap in the simulator's lockstep *)

\* A holds Bootstrap(B, net), B nothing
Bootstraps(a, b) == scen[a] = <<Bootstrap(b, NetOf(b))>> /\ scen[b] = <<>>

\* C6: solo bootstrap. Four ticks after Bootstrap(2, 200) was enqueued on node 1, both nodes
\* hold a session with each other, node 1's node_list holds node 2 under the measured round
\* trip d and its route_map holds the edges (1,2,d) and (2,1,d).
C6_SoloBootstrap ==
    (Bootstraps(1, 2) /\ node[1].ticks >= 4)
    => /\ HasSession(node[1], 2) /\ HasSession(node[2], 1)
       /\ \E e \in node[1].node_list :
            /\ e[2] = 2
            /\ <<1, 2, e[1]>> \in node[1].route_map
            /\ <<2, 1, e[1]>> \in node[1].route_map

\* A starts the exchange Bootstrap is written to start: a handshake that carries ExchangeInfo
StartsExchange(a, b) ==
    /\ scen[a] \in {<<Bootstrap(b, NetOf(b))>>, <<Connect(b, NetOf(b), <<ExchangeInfo(None, 0, 0)>>)>>}
    /\ scen[b] = <<>>

Dispatched(n, from, kind) == \E i \in DOMAIN last[n].log : last[n].log[i] = [from |-> from, kind |-> kind]
SentPacket(n, p) == \E i \in DOMAIN last[n].out : last[n].out[i].enc.type = "Session" /\ last[n].out[i].enc.packet = p
DistAvg(n, x) == SessionOf(node[n], x).tracker.dist_avg

----------------------------------------------------------------------------
(* C8, C9, C10: what one tick does *)

Ticked(n) == node'[n].ticks = node[n].ticks + 1

\* C8: a Condition(Session(X), inner) stays in the action queue over every tick that ends
\* without a session for X, whether or not a RemoteNode record for X exists.
C8_ConditionPersists ==
    [][\A n \in Nodes : \A i \in DOMAIN node[n].actions_queue :
          (/\ Ticked(n)
           /\ node[n].actions_queue[i].type = "Condition"
           /\ node[n].actions_queue[i].cond.ctype = "Session"
           /\ ~HasSession(node'[n], node[n].actions_queue[i].cond.nid))
          => \E j \in DOMAIN node'[n].actions_queue :
                node'[n].actions_queue[j] = node[n].actions_queue[i]]_vars

WantPingsFor(out, e) ==
    {i \in DOMAIN out : out[i].enc.type = "Session" /\ out[i].enc.packet.kind = "WantPing"
                        /\ out[i].enc.packet.nid = e}

\* C9: a tick that comes fewer than 300 ticks after the node dispatched a RequestPings from
\* remote E emits no WantPing on behalf of E, whatever arrived in between.
C9_RateLimitIdempotent ==
    [][\A n \in Nodes : \A e \in rp_seen[n] :
          (Ticked(n) /\ node[n].ticks < RATE_LIMIT) => WantPingsFor(last'[n].out, e) = {}]_vars

\* C10: a tick that starts with a session for nid and Connect(nid, ..) in the queue sends no
\* Handshake to nid and mints no pending handshake for nid.
C10_ConnectIsNoop ==
    [][\A n \in Nodes : \A i \in DOMAIN node[n].actions_queue :
          (/\ Ticked(n)
           /\ node[n].actions_queue[i].type = "Connect"
           /\ HasSession(node[n], node[n].actions_queue[i].nid))
          => /\ \A j \in DOMAIN last'[n].out :
                  ~(/\ last'[n].out[j].enc.type = "Handshake"
                    /\ last'[n].out[j].enc.recipient = node[n].actions_queue[i].nid)
             /\ \/ ~HasPending(n, node[n].actions_queue[i].nid)'
                \/ RemoteOf(node'[n], node[n].actions_queue[i].nid).handshake_pending
                     = RemoteOf(node[n], node[n].actions_queue[i].nid).handshake_pending]_vars

----------------------------------------------------------------------------
(* C11, C12: route_map and node_list against the ping tracker *)

\* C11: every edge (self, b, w) of route_map carries the current dist_avg of the ping tracker
\* of remotes[b].session, also after the session with b was replaced by a repeated handshake.
C11_EdgeIsDistAvg ==
    \A n \in Nodes : \A e \in node[n].route_map :
        (e[1] = n /\ HasSession(node[n], e[2])) => e[3] = DistAvg(n, e[2])

\* C12: every NodeID in node_list belongs to a remote with an active session whose tracker
\* has completed at least one ping round trip, also after that remote sent a further Handshake.
C12_NodeListPinged ==
    \A n \in Nodes : \A e \in node[n].node_list :
        HasSession(node[n], e[2]) /\ SessionOf(node[n], e[2]).tracker.ping_count >= 1

----------------------------------------------------------------------------
(* C13: peer_list *)

IsCoord(c) == c \in Int \X Int

\* C13: after every tick peer_list has at most TARGET_PEER_COUNT entries and every NodeID in
\* it is mapped to a route coordinate; a tick that rebuilds peer_list fills it with NodeIDs
\* that were in node_list when CalculatePeers ran.
C13_PeerListBounded ==
    [][\A n \in Nodes :
          /\ Cardinality(node'[n].peer_list) <= TARGET_PEER_COUNT
          /\ \A p \in node'[n].peer_list : IsCoord(p[2])
          /\ node'[n].peer_list # node[n].peer_list
             => \A p \in node'[n].peer_list : \E e \in node'[n].node_list : e[2] = p[1]]_vars

\* C13 happens: CalculatePeers ran over more viable remotes than TARGET_PEER_COUNT
C13_Reached ==
    /\ Cardinality(node[Target].peer_list) = TARGET_PEER_COUNT
    /\ Cardinality({e \in node[Target].node_list :
                      RemoteOf(node[Target], e[2]).route_coord # None}) > TARGET_PEER_COUNT

----------------------------------------------------------------------------
(* C14: tick always completes *)

\* C14: every call of tick, on any inbound batch and any action queue, completes and leaves
\* ticks exactly one greater: no action variant and no datagram aborts it.
C14_TickCompletes ==
    [][\A n \in Nodes : node'[n] # node[n] => (Ticked(n) /\ ~node'[n].panicked)]_vars

----------------------------------------------------------------------------
(* C15: datagrams rejected with an addressing error *)

\* The tick took the single datagram d into node n, whose action queue was empty
TookOnly(n, d) == incoming' = <<d>> /\ node[n].actions_queue = <<>> /\ Ticked(n)

WrongDest(st, d) == d.dest # st.net_id
WrongRecipient(st, d) == d.dest = st.net_id /\ d.enc.type = "Handshake" /\ d.enc.recipient # st.node_id
IsAckFrom(st, d) == d.dest = st.net_id /\ d.enc.type = "Acknowledge" /\ st.remotes[d.enc.acknowledger] # None
NoPendingAck(st, d) == IsAckFrom(st, d) /\ RemoteOf(st, d.enc.acknowledger).handshake_pending = None
UnknownAck(st, d) ==
    /\ IsAckFrom(st, d)
    /\ RemoteOf(st, d.enc.acknowledger).handshake_pending # None
    /\ Get(RemoteOf(st, d.enc.acknowledger).handshake_pending).session_id # d.enc.session_id

\* The tick of n did nothing but count
OnlyTicked(n) == node'[n] = [node[n] EXCEPT !.ticks = @ + 1] /\ last'[n].out = <<>>

\* C15: a datagram with a wrong dest_addr, a Handshake for another NodeID, an Acknowledge
\* from a remote without pending handshake and an Acknowledge whose session_id differs from
\* the pending one all leave the node state unchanged, the pending handshake included, and
\* emit nothing.
C15_RejectedChangesNothing ==
    [][\A n \in Nodes : \A d \in PktDatagrams :
          (/\ TookOnly(n, d)
           /\ \/ WrongDest(node[n], d)
              \/ WrongRecipient(node[n], d)
              \/ NoPendingAck(node[n], d)
              \/ UnknownAck(node[n], d))
          => OnlyTicked(n)]_vars

----------------------------------------------------------------------------
(* C16: ping round trip *)

\* The datagram d carries packet kind on a session id that node st maps to the remote x, which has a session
CarriesFrom(st, d, kind, x) ==
    /\ d.dest = st.net_id
    /\ d.enc.type = "Session"
    /\ d.enc.packet.kind = kind
    /\ <<d.enc.session_id, x>> \in st.sessions
    /\ HasSession(st, x)

TrackerOf(st, x) == SessionOf(st, x).tracker

\* C16: a PingResponse(id) for a ping that the tracker of the session recorded at tick t_send,
\* taken in at tick t_response, raises ping_count by exactly 1, removes id from the pending
\* pings and writes t_response - t_send to the route_map edge (self, remote); a PingResponse
\* whose id is not pending changes neither ping_count nor route_map.
C16_PingRoundTrip ==
    [][\A n \in Nodes : \A d \in PktDatagrams : \A x \in KnownIDs :
          (TookOnly(n, d) /\ CarriesFrom(node[n], d, "PingResponse", x))
          => LET id == d.enc.packet.id
                 was == TrackerOf(node[n], x)
                 now == TrackerOf(node'[n], x)
             IN IF \E q \in was.pending : q[1] = id
                THEN \A q \in was.pending :
                        q[1] = id => /\ now.ping_count = was.ping_count + 1
                                     /\ now.pending = was.pending \ {q}
                                     /\ <<n, x, node[n].ticks - q[2]>> \in node'[n].route_map
                ELSE /\ now.ping_count = was.ping_count
                     /\ node'[n].route_map = node[n].route_map]_vars

\* C16 happens: the remote's Handshake made the node record ping 0 at tick 1, and the
\* PingResponse(0) taken in at tick 3 was the first sample of the session
C16_Reached ==
    /\ scen[Target] = <<>>
    /\ node[Target].ticks = 4
    /\ incoming = <<From(Peer, Session(1, PingResponse(0)))>>
    /\ HasSession(node[Target], Peer)
    /\ TrackerOf(node[Target], Peer).ping_count = 1
    /\ TrackerOf(node[Target], Peer).pending = {}
    /\ node[Target].node_list = {}
    /\ node[Target].route_map = {<<Target, Peer, 2>>}

----------------------------------------------------------------------------
(* C17: actions enqueued by actions *)

InQueue(q, a) == \E i \in DOMAIN q : q[i] = a

\* C17: an action enqueued by another action during the action phase of a tick is in the
\* queue after the tick: Connect(nid, net, [ExchangeInfo]) after Bootstrap(nid, net) ran,
\* CalculatePeers after TryCalcRouteCoord succeeded.
C17_EnqueuedIsKept ==
    [][\A n \in Nodes :
          Ticked(n)
          => /\ \A i \in DOMAIN node[n].actions_queue :
                  node[n].actions_queue[i].type = "Bootstrap"
                  => \E j \in DOMAIN node'[n].actions_queue :
                        /\ node'[n].actions_queue[j].type = "Connect"
                        /\ node'[n].actions_queue[j].nid = node[n].actions_queue[i].nid
                        /\ node'[n].actions_queue[j].net = node[n].actions_queue[i].net
             /\ (InQueue(node[n].actions_queue, TryCalcRouteCoord) /\ node'[n].route_coord # None)
                => InQueue(node'[n].actions_queue, CalculatePeers)]_vars

----------------------------------------------------------------------------
(* C18: failing actions *)

IsHandshake(d) == d.enc.type = "Handshake"
IsConnect(a) == a.type = "Connect"

\* The NodeIDs the Connect actions of queue q name, in queue order
ConnectsOf(q) == [i \in DOMAIN SelectSeq(q, IsConnect) |-> SelectSeq(q, IsConnect)[i].nid]

\* The recipients of the Handshakes of batch out, in batch order
HandshakesOf(out) == [i \in DOMAIN SelectSeq(out, IsHandshake) |-> SelectSeq(out, IsHandshake)[i].enc.recipient]

\* C18: over a tick without inbound datagrams, no action that is not a Condition is in the
\* queue again afterwards, failed or not; every Connect of the queue has emitted its
\* Handshake, in queue order, whatever failed before it; and a TryCalcRouteCoord without
\* solver data leaves route_coord as it was.
C18_FailedIsDropped ==
    [][\A n \in Nodes :
          (Ticked(n) /\ incoming' = <<>>)
          => /\ \A i \in DOMAIN node[n].actions_queue :
                  node[n].actions_queue[i].type # "Condition"
                  => ~InQueue(node'[n].actions_queue, node[n].actions_queue[i])
             /\ HandshakesOf(last'[n].out) = ConnectsOf(node[n].actions_queue)
             /\ (InQueue(node[n].actions_queue, TryCalcRouteCoord) /\ node[n].deux_ex_data = None)
                => node'[n].route_coord = node[n].route_coord]_vars

\* C18 happens: four actions of the queue failed (unknown remote, no solver data, no
\* coordinate, no session) and the two Connects between and after them ran
C18_Reached ==
    /\ scen[Target] = RunFailing.queue
    /\ node[Target].ticks = 1
    /\ node[Target].actions_queue = <<>>
    /\ node[Target].route_coord = None
    /\ HandshakesOf(last[Target].out) = <<Peer, 3>>

----------------------------------------------------------------------------
(* C19 and C20: proposing route coordinates *)

\* The batch out holds a session packet of the given kind
Emits(out, kind) ==
    \E i \in DOMAIN out : out[i].enc.type = "Session" /\ out[i].enc.packet.kind = kind

\* C19: a node that has a route_coord when a tick begins emits no ProposeRouteCoords in it.
C19_CoordHolderNeverProposes ==
    [][\A n \in Nodes :
          (Ticked(n) /\ node[n].route_coord # None) => ~Emits(last'[n].out, "ProposeRouteCoords")]_vars

\* The coordinates node st holds: its own and the one it stores for remote x
CoordsOf(st, x) == <<st.route_coord, RemoteOf(st, x).route_coord>>

\* C20: a node that has a route_coord answers ProposeRouteCoords with accepted = FALSE and
\* keeps its own coordinate and the one stored for the sender; a node without route_coord
\* installs the first proposed coordinate as its own and the second for the sender and
\* answers accepted = TRUE; a ProposeRouteCoordsResponse with accepted = FALSE changes no
\* coordinate.
C20_ProposalAnswer ==
    [][\A n \in Nodes : \A d \in PktDatagrams : \A x \in KnownIDs :
          /\ (TookOnly(n, d) /\ CarriesFrom(node[n], d, "ProposeRouteCoords", x))
             => LET p == d.enc.packet
                IN IF node[n].route_coord # None
                   THEN /\ SentPacket(n, ProposeRouteCoordsResponse(p.first, p.second, FALSE))'
                        /\ CoordsOf(node'[n], x) = CoordsOf(node[n], x)
                   ELSE /\ SentPacket(n, ProposeRouteCoordsResponse(p.first, p.second, TRUE))'
                        /\ CoordsOf(node'[n], x) = <<Some(p.first), Some(p.second)>>
          /\ (/\ TookOnly(n, d)
              /\ CarriesFrom(node[n], d, "ProposeRouteCoordsResponse", x)
              /\ ~d.enc.packet.accepted)
             => \A y \in KnownIDs :
                   node[n].remotes[y] # None => CoordsOf(node'[n], y) = CoordsOf(node[n], y)]_vars

\* C20 happens: the node, at (0, 1) since its own proposal was accepted, has refused the
\* proposal ((2, 2), (3, 3)) of the remote it holds at (0, 0)
C20_Reached ==
    /\ incoming = <<From(Peer, Session(1, ProposeRouteCoords(<<2, 2>>, <<3, 3>>)))>>
    /\ SentPacket(Target, ProposeRouteCoordsResponse(<<2, 2>>, <<3, 3>>, FALSE))
    /\ node[Target].route_coord = Some(<<0, 1>>)
    /\ RemoteOf(node[Target], Peer).route_coord = Some(<<0, 0>>)

----------------------------------------------------------------------------
(* C21: RequestPings *)

\* The entries of node_list for remotes other than x
OthersOf(st, x) == {e \in st.node_list : e[2] # x}

\* The session packets of the given kind in batch out, in batch order
PacketsOf(out, kind) ==
    LET IsKind(d) == d.enc.type = "Session" /\ d.enc.packet.kind = kind
    IN SelectSeq(out, IsKind)

\* No packet of the given kind has arrived on the session with x
FirstOfKind(st, x, kind) == \A e \in SessionOf(st, x).last_packet_time : e[1] # kind

\* C21: a tick that takes in a single RequestPings(n) from remote x, the first on that
\* session, sends WantPing(x, net of x) to the first min(n, 10) remotes of node_list other
\* than x, in ascending order of distance, and no other WantPing.
C21_WantPingToNearest ==
    [][\A n \in Nodes : \A x \in KnownIDs :
          (/\ Len(incoming') = 1
           /\ TookOnly(n, incoming'[1])
           /\ CarriesFrom(node[n], incoming'[1], "RequestPings", x)
           /\ FirstOfKind(node[n], x, "RequestPings"))
          => LET num == Min(incoming'[1].enc.packet.requests, MAX_REQUEST_PINGS)
                 others == OthersOf(node[n], x)
                 sent == PacketsOf(last'[n].out, "WantPing")
             IN /\ Len(sent) = Min(num, Cardinality(others))
                /\ \A i \in DOMAIN sent :
                      /\ sent[i].enc.packet = WantPing(x, SessionOf(node[n], x).return_net_id)
                      /\ \E e \in others :
                            /\ Rank(others, e) = i - 1
                            /\ sent[i].dest = SessionOf(node[n], e[2]).return_net_id]_vars

----------------------------------------------------------------------------
(* C22: WantPing *)

\* The Handshakes to x in batch out
HandshakesTo(out, x) == {i \in DOMAIN out : IsHandshake(out[i]) /\ out[i].enc.recipient = x}

\* C22: whatever a tick takes in, several WantPing packets for the same NodeID included, it
\* sends at most one Handshake to any one NodeID.
C22_OneHandshakeOutstanding ==
    [][\A n \in Nodes : \A x \in KnownIDs :
          Ticked(n) => Cardinality(HandshakesTo(last'[n].out, x)) <= 1]_vars

----------------------------------------------------------------------------
(* C23: the rate limit *)

\* The packet kinds a remote can send unsolicited
RateKinds == {"Ping", "ExchangeInfo", "RequestPings", "WantPing", "AcceptWantPing"}

\* A packet of the given kind arrived on the session with x fewer than RATE_LIMIT ticks ago
Recent(st, x, kind) ==
    \E e \in SessionOf(st, x).last_packet_time : e[1] = kind /\ st.ticks - e[2] < RATE_LIMIT

\* Node st without the arrival times of the session with x
ButTimes(st, x) == SetSession(st, x, [SessionOf(st, x) EXCEPT !.last_packet_time = {}])

\* C23: a tick that takes in a single packet of a kind a remote can send unsolicited, fewer
\* than 300 ticks after the previous packet of that kind on the session, emits nothing,
\* enqueues nothing and changes nothing but last_packet_time: no edge of route_map either.
C23_RateLimitDrops ==
    [][\A n \in Nodes : \A x \in KnownIDs : \A kind \in RateKinds :
          (/\ Len(incoming') = 1
           /\ TookOnly(n, incoming'[1])
           /\ CarriesFrom(node[n], incoming'[1], kind, x)
           /\ Recent(node[n], x, kind))
          => /\ last'[n].out = <<>>
             /\ ButTimes(node'[n], x) = ButTimes([node[n] EXCEPT !.ticks = @ + 1], x)]_vars

----------------------------------------------------------------------------
(* C24: node_list keeps its entries *)

\* The NodeIDs of node_list
Listed(st) == {e[2] : e \in st.node_list}

\* C24: a NodeID that is in node_list before a tick is in node_list after it, also when the
\* tick inserts another remote under the same distance, and after every tick no NodeID is
\* in node_list under two keys.
C24_NodeListKeeps ==
    [][\A n \in Nodes :
          /\ Listed(node[n]) \subseteq Listed(node'[n])
          /\ \A e, f \in node'[n].node_list : e[2] = f[2] => e = f]_vars

----------------------------------------------------------------------------
(* C25: coordinate agreement *)

\* The queue q starts an exchange: Bootstrap, or a Connect that carries ExchangeInfo
Exchanges(q) ==
    \E i \in DOMAIN q :
        \/ q[i].type = "Bootstrap"
        \/ q[i].type = "Connect" /\ \E j \in DOMAIN q[i].packets : q[i].packets[j].kind = "ExchangeInfo"

\* A is the only one of the two to start an exchange, so B sends no proposal of its own
OnlyProposer(a, b) == Exchanges(scen[a]) /\ ~Exchanges(scen[b])

\* C25: once A, the only one of A and B to propose, has processed B's accepting answer, A's
\* route_coord is the one B stores for A, B's route_coord is the one A stores for B, and the
\* two are (0,0) and (0,d), d being A's dist_avg of B.
C25_CoordinatesAgree ==
    \A a \in Nodes : \A b \in Nodes \ {a} :
        (OnlyProposer(a, b) /\ Dispatched(a, b, "ProposeRouteCoordsResponse")
                            /\ node[a].route_coord # None)
        => /\ node[a].route_coord = RemoteOf(node[b], a).route_coord
           /\ node[b].route_coord = RemoteOf(node[a], b).route_coord
           /\ {node[a].route_coord, node[b].route_coord}
                = {Some(<<0, 0>>), Some(<<0, DistAvg(a, b)>>)}

\* C25 happens: A has processed the accepting answer and the two coordinates differ
C25_Reached ==
    \E a \in Nodes : \E b \in Nodes \ {a} :
        /\ OnlyProposer(a, b) /\ Dispatched(a, b, "ProposeRouteCoordsResponse")
        /\ node[a].route_coord # None /\ node[b].route_coord # None
        /\ node[a].route_coord # node[b].route_coord

----------------------------------------------------------------------------
(* C26: route coordinate stability *)

\* The batch holds an accepting ProposeRouteCoordsResponse from an InternetID of the set asked
AcceptedFrom(batch, asked) ==
    \E i \in DOMAIN batch :
        /\ batch[i].enc.type = "Session"
        /\ batch[i].enc.packet.kind = "ProposeRouteCoordsResponse"
        /\ batch[i].enc.packet.accepted
        /\ batch[i].src \in asked

\* C26: a route_coord that is set stays set; a tick changes it only to the solver's
\* coordinate or on an accepting ProposeRouteCoordsResponse from a remote the node sent a
\* ProposeRouteCoords to; and a ProposeRouteCoordsResponse from a remote the node sent no
\* proposal to leaves route_coord as it was.
C26_CoordStable ==
    [][\A n \in Nodes :
          /\ node[n].route_coord # None => node'[n].route_coord # None
          /\ (node[n].route_coord # None /\ node'[n].route_coord # node[n].route_coord)
             => \/ node'[n].route_coord = node[n].deux_ex_data
                \/ AcceptedFrom(incoming', proposed[n])
          /\ \A x \in KnownIDs :
                (/\ Len(incoming') = 1
                 /\ TookOnly(n, incoming'[1])
                 /\ CarriesFrom(node[n], incoming'[1], "ProposeRouteCoordsResponse", x)
                 /\ incoming'[1].src \notin proposed[n])
                => node'[n].route_coord = node[n].route_coord]_vars

====
